---- MODULE Spec2Model ----
(***************************************************************************)
(* Model of prql-compiler/src/ast/item.rs: the Item tree, the two          *)
(* structural conversions of Pipeline and Range, and the Display renderer. *)
(*                                                                         *)
(* An Item is a record [kind, txt, names, n, kids]; every variant uses the *)
(* same five fields so that any two items can be compared:                 *)
(*   kind   the variant's name                                             *)
(*   txt    its string payload (identifier, operator symbol, dialect, ...) *)
(*   names  its list of plain names (parameter names, named-argument keys) *)
(*   n      its integer payload                                            *)
(*   kids   the Nodes it owns, in order                                    *)
(* Option<Box<Node>> is a kid that is either a node or the item None.      *)
(* Text is a sequence of written chunks [s, d]: s is the text of one write *)
(* and d says whether that write was an opening delimiter, a closing       *)
(* delimiter or plain text.                                                *)
(***************************************************************************)
EXTENDS Integers, Sequences, FiniteSets, TLC

VARIABLES item, callsite, stack, out, status, ints, intoRes, asRes, intRes

vars == <<item, callsite, stack, out, status, ints, intoRes, asRes, intRes>>

(***************************************************************************)
(* Bounds of the model.                                                    *)
(***************************************************************************)
MaxLen == 3
MaxDepth == 3
MaxTop == 2
MaxNamed == 2
MaxInt == 2

(***************************************************************************)
(* The Item variants.                                                      *)
(***************************************************************************)
Mk(kind, txt, names, n, kids) ==
    [kind |-> kind, txt |-> txt, names |-> names, n |-> n, kids |-> kids]

None == Mk("None", "", <<>>, 0, <<>>)
Empty == Mk("Empty", "", <<>>, 0, <<>>)
Ident(s) == Mk("Ident", s, <<>>, 0, <<>>)
LitInteger(x) == Mk("Literal", "Integer", <<>>, x, <<>>)
LitOther(k, text) == Mk("Literal", k, <<text>>, 0, <<>>)
Assign(name, expr) == Mk("Assign", name, <<>>, 0, <<expr>>)
NamedArg(name, expr) == Mk("NamedArg", name, <<>>, 0, <<expr>>)
Query(dialect, nodes) == Mk("Query", dialect, <<>>, 0, nodes)
Pipeline(nodes) == Mk("Pipeline", "", <<>>, 0, nodes)
Transform(k) == Mk("Transform", k, <<>>, 0, <<>>)
List(nodes) == Mk("List", "", <<>>, 0, nodes)
Range(start, end) == Mk("Range", "", <<>>, 0, <<start, end>>)
Binary(left, op, right) == Mk("Binary", op, <<>>, 0, <<left, right>>)
Unary(op, expr) == Mk("Unary", op, <<>>, 0, <<expr>>)
FuncDef(name, positional, named, body) ==
    Mk("FuncDef", name, positional \o named, Len(positional), <<body>>)
FuncCall(name, keys, vals, args) ==
    Mk("FuncCall", "", keys, Len(keys), <<name>> \o vals \o args)
FuncCurry == Mk("FuncCurry", "", <<>>, 0, <<>>)
Type(ty) == Mk("Type", ty, <<>>, 0, <<>>)
Table(name, pipeline) == Mk("Table", name, <<>>, 0, <<pipeline>>)
SString(parts) == Mk("SString", "", <<>>, 0, parts)
FString(parts) == Mk("FString", "", <<>>, 0, parts)
Interval(x, unit) == Mk("Interval", unit, <<>>, x, <<>>)
Windowed(expr) == Mk("Windowed", "", <<>>, 0, <<expr>>)

\* InterpolateItem::String and InterpolateItem::Expr
PartString(s) == Mk("PartString", s, <<>>, 0, <<>>)
PartExpr(e) == Mk("PartExpr", "", <<>>, 0, <<e>>)

(***************************************************************************)
(* The renderer, impl Display for Item.  fmt(it) is the sequence of writes *)
(* one call of fmt makes for it, in order: a chunk of text, or a nested    *)
(* call of fmt on a child's item.                                          *)
(***************************************************************************)
Str(s) == [w |-> "str", s |-> s, d |-> "text", it |-> None]
Open(s) == [w |-> "str", s |-> s, d |-> "open", it |-> None]
Close(s) == [w |-> "str", s |-> s, d |-> "close", it |-> None]
Node(it) == [w |-> "item", s |-> "", d |-> "text", it |-> it]

\* The writes of a loop: those of its iterations, one after the other.
\* A loop "for x in xs { body }" is Concat([j \in DOMAIN xs |-> body(xs[j])]).
RECURSIVE Concat(_)
Concat(seqs) == IF seqs = <<>> THEN <<>> ELSE Head(seqs) \o Concat(Tail(seqs))

\* The Display of a Literal and the Debug of a Node are defined outside
\* item.rs; only their being one piece of text matters here.
LiteralFmt(it) == IF it.txt = "Integer" THEN ToString(it.n) ELSE it.names[1]
DebugFmt(it) == "Node { item: " \o it.kind \o " }"

\* display_interpolation, were it to close an expression part with the
\* wrong delimiter
display_interpolation_mismatch(prefix, parts) ==
    LET part(p) == IF p.kind = "PartString"
                   THEN <<Str(p.txt)>>
                   ELSE <<Open("{"), Node(p.kids[1]), Close("\"")>>
    IN  <<Str(prefix), Open("\"")>>
            \o Concat([j \in DOMAIN parts |-> part(parts[j])])
            \o <<Close("}")>>

display_interpolation(prefix, parts) ==
    LET part(p) == IF p.kind = "PartString"
                   THEN <<Str(p.txt)>>
                   ELSE <<Open("{"), Node(p.kids[1]), Close("}")>>
    IN  <<Str(prefix), Open("\"")>>
            \o Concat([j \in DOMAIN parts |-> part(parts[j])])
            \o <<Close("\"")>>

\* the Query arm, were it to render a top-level Pipeline as any other node
fmtQuery_inline(it) ==
    <<Str("prql dialect: "), Str(it.txt), Str("\n\n")>>
        \o Concat([j \in DOMAIN it.kids |-> <<Node(it.kids[j])>>])

fmtQuery(it) ==
    LET stage(node) == <<Node(node), Str("\n")>>
        top(node) == IF node.kind = "Pipeline"
                     THEN Concat([j \in DOMAIN node.kids |-> stage(node.kids[j])])
                     ELSE <<Node(node)>>
    IN  <<Str("prql dialect: "), Str(it.txt), Str("\n\n")>>
            \o Concat([j \in DOMAIN it.kids |-> top(it.kids[j])])

\* the Pipeline arm, were it to take the first arm's inline form whenever
\* there is a stage
fmtPipeline_piped(it) ==
    LET rest == Tail(it.kids)
        piped(node) == <<Str(" | "), Node(node)>>
        body == IF it.kids = <<>> THEN <<>>
                ELSE <<Node(it.kids[1])>>
                         \o Concat([j \in DOMAIN rest |-> piped(rest[j])])
    IN  <<Open("(")>> \o body \o <<Close(")")>>

fmtPipeline(it) ==
    LET rest == Tail(it.kids)
        piped(node) == <<Str(" | "), Node(node)>>
        line(node) == <<Str("  "), Node(node), Str("\n")>>
        body == CASE Len(it.kids) = 0 -> <<>>
                  [] Len(it.kids) = 1 ->
                        <<Node(it.kids[1])>>
                            \o Concat([j \in DOMAIN rest |-> piped(rest[j])])
                  [] OTHER ->
                        <<Str("\n  "), Node(it.kids[1]), Str("\n")>>
                            \o Concat([j \in DOMAIN rest |-> line(rest[j])])
    IN  <<Open("(")>> \o body \o <<Close(")")>>

\* the List arm, were it to leave the last element without its comma
fmtList_nolastcomma(it) ==
    LET line(j) == IF j = Len(it.kids)
                   THEN <<Str("  "), Node(it.kids[j]), Str("\n")>>
                   ELSE <<Str("  "), Node(it.kids[j]), Str(","), Str("\n")>>
    IN  IF it.kids = <<>> THEN <<Open("["), Close("]")>>
        ELSE IF Len(it.kids) = 1 THEN <<Open("["), Node(it.kids[1]), Close("]")>>
        ELSE <<Open("["), Str("\n")>>
                \o Concat([j \in DOMAIN it.kids |-> line(j)])
                \o <<Close("]")>>

fmtList(it) ==
    LET line(li) == <<Str("  "), Node(li), Str(","), Str("\n")>>
    IN  IF it.kids = <<>> THEN <<Open("["), Close("]")>>
        ELSE IF Len(it.kids) = 1 THEN <<Open("["), Node(it.kids[1]), Close("]")>>
        ELSE <<Open("["), Str("\n")>>
                \o Concat([j \in DOMAIN it.kids |-> line(it.kids[j])])
                \o <<Close("]")>>

fmtFuncDef(it) ==
    LET positional_params == SubSeq(it.names, 1, it.n)
        named_params == SubSeq(it.names, it.n + 1, Len(it.names))
        param(name) == <<Str(" "), Str(name)>>
    IN  <<Str("func "), Str(it.txt)>>
            \o Concat([j \in DOMAIN positional_params |-> param(positional_params[j])])
            \o Concat([j \in DOMAIN named_params |-> param(named_params[j])])
            \o <<Str(" = "), Node(it.kids[1]), Str("\n\n")>>

fmtFuncCall(it) ==
    LET args == SubSeq(it.kids, it.n + 2, Len(it.kids))
        named(j) == <<Str(" "), Str(it.names[j]), Str(": "), Node(it.kids[1 + j])>>
        arg(a) == <<Str(" "), Node(a)>>
    IN  <<Node(it.kids[1])>>
            \o Concat([j \in 1..it.n |-> named(j)])
            \o Concat([j \in DOMAIN args |-> arg(args[j])])

fmtRange(it) ==
    (IF it.kids[1].kind # "None" THEN <<Node(it.kids[1])>> ELSE <<>>)
        \o <<Str("..")>>
        \o (IF it.kids[2].kind # "None" THEN <<Node(it.kids[2])>> ELSE <<>>)

fmt(it) ==
    CASE it.kind = "Empty" -> <<Str("()")>>
      [] it.kind = "Ident" -> <<Str(it.txt)>>
      [] it.kind = "Assign" -> <<Str(it.txt), Str(" = "), Node(it.kids[1])>>
      [] it.kind = "NamedArg" -> <<Str(it.txt), Str(":"), Node(it.kids[1])>>
      [] it.kind = "Query" -> fmtQuery(it)
      [] it.kind = "Pipeline" -> fmtPipeline(it)
      [] it.kind = "Transform" -> <<Str(it.txt), Str(" <unimplemented>")>>
      [] it.kind = "FuncDef" -> fmtFuncDef(it)
      [] it.kind = "Table" ->
            <<Str("table "), Str(it.txt), Str(" = "), Node(it.kids[1]), Str("\n\n")>>
      [] it.kind = "List" -> fmtList(it)
      [] it.kind = "Range" -> fmtRange(it)
      [] it.kind = "Binary" ->
            <<Node(it.kids[1]), Str(" "), Str(it.txt), Str(" "), Node(it.kids[2])>>
      [] it.kind = "Unary" ->
            IF it.txt = "Neg" THEN <<Str("!"), Node(it.kids[1])>>
                              ELSE <<Str("not "), Node(it.kids[1])>>
      [] it.kind = "FuncCall" -> fmtFuncCall(it)
      [] it.kind = "FuncCurry" -> <<Str("(func ? -> ?)")>>
      [] it.kind = "SString" -> display_interpolation("s", it.kids)
      [] it.kind = "FString" -> display_interpolation("f", it.kids)
      [] it.kind = "Interval" -> <<Str(ToString(it.n)), Str(it.txt)>>
      [] it.kind = "Windowed" -> <<Str(DebugFmt(it.kids[1]))>>
      [] it.kind = "Type" -> <<Open("<"), Str(it.txt), Close(">")>>
      [] it.kind = "Literal" -> <<Str(LiteralFmt(it))>>

\* The chunks written by one complete call of fmt, nested calls included.
RECURSIVE Written(_)
Written(it) ==
    LET one(p) == IF p.w = "str" THEN <<[s |-> p.s, d |-> p.d]>> ELSE Written(p.it)
        writes == fmt(it)
    IN  Concat([j \in DOMAIN writes |-> one(writes[j])])

\* The text of a sequence of chunks.
RECURSIVE Text(_)
Text(chunks) == IF chunks = <<>> THEN "" ELSE Head(chunks).s \o Text(Tail(chunks))

\* item.to_string()
to_string(it) == Text(Written(it))

(***************************************************************************)
(* The trees the renderer is run on.                                       *)
(***************************************************************************)
SeqsUpTo(S, n) == UNION {[1..k -> S] : k \in 0..n}

\* The orders in which a sequence without repetitions can be listed.
Orders(s) == {p \in [DOMAIN s -> {s[j] : j \in DOMAIN s}] :
                 \A j, k \in DOMAIN s : p[j] = p[k] => j = k}

Stages == {Ident("A"), Ident("B"), LitInteger(1)}

Leaves == Stages \cup {Empty, Transform("filter"), FuncCurry, Type("int"),
                       Interval(2, "days"), LitOther("String", "x"),
                       Range(None, None)}

\* Every variant that owns Nodes, owning k (and leaves).
Wrap(k) ==
    { Assign("x", k), NamedArg("x", k), Unary("Neg", k), Unary("Not", k),
      Table("t", k), Windowed(k), FuncDef("f", <<"x">>, <<"y">>, k),
      Range(k, None), Range(None, k), Range(k, Ident("B")),
      Binary(k, "+", Ident("B")), Binary(Ident("A"), "<", k),
      List(<<k>>), List(<<Ident("A"), k>>),
      Pipeline(<<k>>), Pipeline(<<k, Ident("B")>>),
      Query("sql", <<k>>),
      SString(<<PartExpr(k)>>), FString(<<PartString("x"), PartExpr(k)>>),
      FuncCall(k, <<>>, <<>>, <<>>), FuncCall(Ident("f"), <<>>, <<>>, <<k>>) }

Shallow == Leaves \cup UNION {Wrap(k) : k \in Leaves}

\* The variants that write delimiters around their children (and two that
\* do not), nested in one another up to depth levels.
Enclose(k) ==
    { List(<<k>>), List(<<Ident("A"), k>>), Pipeline(<<k>>), Pipeline(<<k, Ident("B")>>),
      SString(<<PartExpr(k)>>), FString(<<PartString("x"), PartExpr(k)>>),
      Binary(Ident("A"), "<", k) }

RECURSIVE Deep(_)
Deep(depth) ==
    IF depth = 0 THEN {Ident("A"), Type("int")}
    ELSE LET below == Deep(depth - 1)
         IN  below \cup UNION {Enclose(k) : k \in below}

\* Every variant that owns a sequence, owning up to MaxLen leaves.
Flat ==
    LET nodes == SeqsUpTo(Stages, MaxLen)
        parts == SeqsUpTo({PartString("x"), PartExpr(Ident("A"))}, MaxLen)
        params == SeqsUpTo({"x", "y"}, 2)
    IN  {Pipeline(s) : s \in nodes} \cup {List(s) : s \in nodes}
            \cup {SString(s) : s \in parts} \cup {FString(s) : s \in parts}
            \cup {FuncDef("f", a, b, Ident("A")) : a, b \in params}

\* Queries of up to MaxTop top-level nodes, pipelines of 0..MaxLen stages
\* among them.
StageRow(k) == [j \in 1..k |-> IF j % 2 = 1 THEN Ident("A") ELSE Transform("take")]
TopNodes == {Pipeline(StageRow(k)) : k \in 0..MaxLen}
                \cup {Ident("B"), FuncDef("f", <<"x">>, <<>>, Ident("x"))}
Queries == {Query("sql", s) : s \in SeqsUpTo(TopNodes, MaxTop)}

Trees == Shallow \cup Deep(MaxDepth) \cup Flat \cup Queries

\* FuncCall.named_args is a HashMap<Ident, Box<Node>>.  Its iteration order
\* is not specified: it depends on the hasher's per-map random keys, so a
\* map built by inserting `keys` in order may list them in any order.
Keys == {"k" \o ToString(j) : j \in 1..MaxNamed}
CallSites == {s \in SeqsUpTo(Keys, MaxNamed) : \A j, k \in DOMAIN s : s[j] = s[k] => j = k}
HashMapIter(keys) == Orders(keys)

\* f k1:vk1 k2:vk2 A B as parsed: the named arguments are inserted in the
\* order of the call site, and the map then lists them in one of its orders.
FuncCalls ==
    UNION {{[item |-> FuncCall(Ident("f"), order,
                               [j \in DOMAIN order |-> Ident("v" \o order[j])], args),
             callsite |-> keys] :
                order \in HashMapIter(keys),
                args \in SeqsUpTo({Ident("A"), Ident("B")}, 2)} :
           keys \in CallSites}

FmtInputs == {[item |-> t, callsite |-> <<>>] : t \in Trees} \cup FuncCalls

(***************************************************************************)
(* The conversions' results, before any conversion has run.                *)
(***************************************************************************)
NotCalled == [op |-> "none", ok |-> FALSE, vals |-> <<>>, err |-> <<>>]

(***************************************************************************)
(* One run of item.to_string(): fmt runs on the item, write by write.      *)
(* stack is what remains to be done, innermost call first: the writes left *)
(* in each call of fmt that has begun.                                     *)
(***************************************************************************)
InitFmt ==
    /\ \E in \in FmtInputs : item = in.item /\ callsite = in.callsite
    /\ stack = <<Node(item)>>
    /\ out = <<>>
    /\ status = "run"
    /\ ints = <<>>
    /\ intoRes = NotCalled
    /\ asRes = NotCalled
    /\ intRes = NotCalled

\* write!(f, "{}", node.item): fmt is entered on a child
Call ==
    /\ status = "run"
    /\ stack # <<>>
    /\ Head(stack).w = "item"
    /\ stack' = fmt(Head(stack).it) \o Tail(stack)
    /\ UNCHANGED <<item, callsite, out, status, ints, intoRes, asRes, intRes>>

\* f.write_str(..) returns Ok: the text is appended to the sink
Write ==
    /\ status = "run"
    /\ stack # <<>>
    /\ Head(stack).w = "str"
    /\ out' = Append(out, [s |-> Head(stack).s, d |-> Head(stack).d])
    /\ stack' = Tail(stack)
    /\ UNCHANGED <<item, callsite, status, ints, intoRes, asRes, intRes>>

\* f.write_str(..)? returns Err: every call of fmt in progress returns it
WriteErr ==
    /\ status = "run"
    /\ stack # <<>>
    /\ Head(stack).w = "str"
    /\ status' = "err"
    /\ stack' = <<>>
    /\ UNCHANGED <<item, callsite, out, ints, intoRes, asRes, intRes>>

\* Ok(()) of the outermost call
Return ==
    /\ status = "run"
    /\ stack = <<>>
    /\ status' = "ok"
    /\ UNCHANGED <<item, callsite, stack, out, ints, intoRes, asRes, intRes>>

NextFmt == Call \/ Write \/ WriteErr \/ Return

SpecFmt == InitFmt /\ [][NextFmt]_vars

\* fmt is synchronous code: a call that has begun keeps running
SpecFmtLive == InitFmt /\ [][NextFmt]_vars /\ WF_vars(NextFmt)

(***************************************************************************)
(* The structural conversions.  A Result or Option is a record             *)
(* [op, ok, vals, err]: ok says Ok/Some, vals is the payload of Ok/Some    *)
(* and err is <<e>> for Err(e).  An Option<i64> is <<>> or <<x>>.          *)
(***************************************************************************)
\* Item::into_transform and Item::as_transform, derived by EnumAsInner
into_transform(it) ==
    IF it.kind = "Transform" THEN [ok |-> TRUE, val |-> it.txt, err |-> None]
                             ELSE [ok |-> FALSE, val |-> "", err |-> it]
as_transform(it) ==
    IF it.kind = "Transform" THEN [ok |-> TRUE, val |-> it.txt]
                             ELSE [ok |-> FALSE, val |-> ""]

\* Iterator::try_collect into Result<Vec<_>, _>: the first Err ends it
RECURSIVE try_collect(_, _)
try_collect(results, acc) ==
    IF results = <<>> THEN [op |-> "into_transforms", ok |-> TRUE, vals |-> acc, err |-> <<>>]
    ELSE IF Head(results).ok THEN try_collect(Tail(results), Append(acc, Head(results).val))
    ELSE [op |-> "into_transforms", ok |-> FALSE, vals |-> <<>>, err |-> <<Head(results).err>>]

\* Iterator::collect into Option<Vec<_>>: the first None ends it
RECURSIVE collect(_, _)
collect(options, acc) ==
    IF options = <<>> THEN [op |-> "as_transforms", ok |-> TRUE, vals |-> acc, err |-> <<>>]
    ELSE IF Head(options).ok THEN collect(Tail(options), Append(acc, Head(options).val))
    ELSE [op |-> "as_transforms", ok |-> FALSE, vals |-> <<>>, err |-> <<>>]

\* into_transforms, were it to go on after an Err and report the last one
RECURSIVE last_err(_, _)
last_err(results, found) ==
    IF results = <<>> THEN found
    ELSE last_err(Tail(results), IF Head(results).ok THEN found ELSE <<Head(results).err>>)
into_transforms_last(self) ==
    LET results == [j \in DOMAIN self.kids |-> into_transform(self.kids[j])]
        first == try_collect(results, <<>>)
    IN  IF first.ok THEN first ELSE [first EXCEPT !.err = last_err(results, <<>>)]

\* into_transforms, were it to skip the nodes that are not Transforms
RECURSIVE only_transforms(_)
only_transforms(nodes) ==
    IF nodes = <<>> THEN <<>>
    ELSE (IF Head(nodes).kind = "Transform" THEN <<Head(nodes).txt>> ELSE <<>>)
             \o only_transforms(Tail(nodes))
into_transforms_filter(self) ==
    [op |-> "into_transforms", ok |-> TRUE, vals |-> only_transforms(self.kids), err |-> <<>>]

into_transforms(self) ==
    try_collect([j \in DOMAIN self.kids |-> into_transform(self.kids[j])], <<>>)

\* as_transforms, were it to filter the Transforms out of the nodes
as_transforms_filter(self) ==
    [op |-> "as_transforms", ok |-> TRUE, vals |-> only_transforms(self.kids), err |-> <<>>]

as_transforms(self) ==
    collect([j \in DOMAIN self.kids |-> as_transform(self.kids[j])], <<>>)

\* from_ints, were it to wrap the bounds the wrong way round
from_ints_swapped(start, end) ==
    LET wrap(x) == IF x = <<>> THEN None ELSE LitInteger(x[1])
    IN  Range(wrap(end), wrap(start))

from_ints(start, end) ==
    LET wrap(x) == IF x = <<>> THEN None ELSE LitInteger(x[1])
    IN  Range(wrap(start), wrap(end))

\* cast_bound, were it to truncate a float literal to an integer
cast_bound_coerce(bound) ==
    IF bound.kind # "Literal" THEN [ok |-> FALSE, val |-> 0]
    ELSE IF bound.txt = "Float" THEN [ok |-> TRUE, val |-> 1]
    ELSE IF bound.txt # "Integer" THEN [ok |-> FALSE, val |-> 0]
    ELSE [ok |-> TRUE, val |-> bound.n]

\* bound.item.into_literal()?.into_integer()?
cast_bound(bound) ==
    IF bound.kind # "Literal" THEN [ok |-> FALSE, val |-> 0]
    ELSE IF bound.txt # "Integer" THEN [ok |-> FALSE, val |-> 0]
    ELSE [ok |-> TRUE, val |-> bound.n]

into_int(self) ==
    LET start == self.kids[1]
        end == self.kids[2]
        s == cast_bound(start)
        e == cast_bound(end)
        fail(b) == [op |-> "into_int", ok |-> FALSE, vals |-> <<>>, err |-> <<b>>]
    IN  IF start.kind # "None" /\ ~s.ok THEN fail(start)
        ELSE IF end.kind # "None" /\ ~e.ok THEN fail(end)
        ELSE [op |-> "into_int", ok |-> TRUE,
              vals |-> << IF start.kind = "None" THEN <<>> ELSE <<s.val>>,
                          IF end.kind = "None" THEN <<>> ELSE <<e.val>> >>,
              err |-> <<>>]

\* The pipelines and ranges the conversions are run on.
PipeNodes == {Transform("filter"), Transform("take"), Ident("A"), List(<<>>)}
Pipelines == {Pipeline(s) : s \in SeqsUpTo(PipeNodes, MaxLen)}
I64 == (0 - MaxInt)..MaxInt
OptI64 == {<<>>} \cup {<<x>> : x \in I64}
Bounds == {None, Ident("A"), LitOther("Float", "1.5"), LitOther("String", "x")}
              \cup {LitInteger(x) : x \in I64}
Ranges == {Range(s, e) : s, e \in Bounds}

InitConv ==
    /\ item \in Pipelines \cup Ranges
    /\ callsite = <<>>
    /\ stack = <<>>
    /\ out = <<>>
    /\ status = "idle"
    /\ ints = <<>>
    /\ intoRes = NotCalled
    /\ asRes = NotCalled
    /\ intRes = NotCalled

IntoTransforms ==
    /\ item.kind = "Pipeline"
    /\ intoRes.op = "none"
    /\ intoRes' = into_transforms(item)
    /\ UNCHANGED <<item, callsite, stack, out, status, ints, asRes, intRes>>

AsTransforms ==
    /\ item.kind = "Pipeline"
    /\ asRes.op = "none"
    /\ asRes' = as_transforms(item)
    /\ UNCHANGED <<item, callsite, stack, out, status, ints, intoRes, intRes>>

FromInts ==
    /\ item.kind = "Range"
    /\ intRes.op = "none"
    /\ \E start, end \in OptI64 :
          /\ item' = from_ints(start, end)
          /\ ints' = <<start, end>>
    /\ UNCHANGED <<callsite, stack, out, status, intoRes, asRes, intRes>>

IntoInt ==
    /\ item.kind = "Range"
    /\ intRes.op = "none"
    /\ intRes' = into_int(item)
    /\ UNCHANGED <<item, callsite, stack, out, status, ints, intoRes, asRes>>

Next == IntoTransforms \/ AsTransforms \/ FromInts \/ IntoInt

Spec == InitConv /\ [][Next]_vars

(***************************************************************************)
(* The claims about the conversions, checked under Spec.                   *)
(***************************************************************************)
AllTransforms(nodes) == \A j \in DOMAIN nodes : nodes[j].kind = "Transform"
FirstOther(nodes) ==
    CHOOSE j \in DOMAIN nodes :
        /\ nodes[j].kind # "Transform"
        /\ \A k \in 1..(j - 1) : nodes[k].kind = "Transform"
IsInteger(bound) == bound.kind = "Literal" /\ bound.txt = "Integer"
Present(bound) == bound.kind # "None"

\* C1: into_transforms returns Ok with every node's Transform, same length
\* and order, when all nodes are Transforms; otherwise Err with the Item of
\* the first node that is not a Transform, and no Transforms at all.
C1_IntoTransforms ==
    intoRes.op = "into_transforms" =>
        IF AllTransforms(item.kids)
        THEN /\ intoRes.ok
             /\ intoRes.err = <<>>
             /\ Len(intoRes.vals) = Len(item.kids)
             /\ \A j \in DOMAIN item.kids : intoRes.vals[j] = item.kids[j].txt
        ELSE /\ ~intoRes.ok
             /\ intoRes.err = <<item.kids[FirstOther(item.kids)]>>
             /\ intoRes.vals = <<>>

\* reached: Err on a pipeline with two offending nodes after a Transform
C1_Witness ==
    /\ intoRes.op = "into_transforms"
    /\ ~intoRes.ok
    /\ Len(item.kids) = 3
    /\ item.kids[1].kind = "Transform"
    /\ item.kids[2].kind = "Ident"
    /\ item.kids[3].kind = "List"

\* C2: as_transforms is all or nothing: present with every node's Transform
\* in order exactly when all nodes are Transforms (the empty sequence for
\* the empty pipeline), absent as soon as one node is not; and the call
\* leaves the pipeline as it was.
C2_AsTransforms ==
    /\ [](asRes.op = "as_transforms" =>
            /\ asRes.ok <=> AllTransforms(item.kids)
            /\ asRes.ok => /\ Len(asRes.vals) = Len(item.kids)
                           /\ \A j \in DOMAIN item.kids : asRes.vals[j] = item.kids[j].txt
            /\ ~asRes.ok => asRes.vals = <<>>
            /\ item.kids = <<>> => asRes.ok /\ asRes.vals = <<>>)
    /\ [][AsTransforms => item' = item]_vars

\* reached: absence for a pipeline whose last node alone is not a Transform
C2_Witness ==
    /\ asRes.op = "as_transforms"
    /\ ~asRes.ok
    /\ Len(item.kids) = 3
    /\ item.kids[1].kind = "Transform"
    /\ item.kids[2].kind = "Transform"
    /\ item.kids[3].kind # "Transform"

\* C3: from_ints never fails and keeps an absent bound absent, and into_int
\* of its result is Ok with the same two optional integers.
C3_RoundTrip ==
    ints # <<>> =>
        /\ item.kind = "Range"
        /\ Present(item.kids[1]) <=> ints[1] # <<>>
        /\ Present(item.kids[2]) <=> ints[2] # <<>>
        /\ intRes.op = "into_int" => intRes.ok /\ intRes.vals = ints

\* reached: the round trip of two different integers
C3_Witness ==
    /\ intRes.op = "into_int"
    /\ ints # <<>>
    /\ ints[1] # <<>>
    /\ ints[2] # <<>>
    /\ ints[1] # ints[2]

\* C4: into_int fails exactly when a present bound is not an integer
\* literal; on success every present bound's integer is in its place and
\* every absent bound is absent.
C4_IntoInt ==
    intRes.op = "into_int" =>
        /\ ~intRes.ok <=> \E j \in 1..2 : Present(item.kids[j]) /\ ~IsInteger(item.kids[j])
        /\ intRes.ok =>
              \A j \in 1..2 :
                  intRes.vals[j] = IF Present(item.kids[j]) THEN <<item.kids[j].n>> ELSE <<>>

\* reached: failure on a float end bound after an integer start bound
C4_Witness ==
    /\ intRes.op = "into_int"
    /\ ~intRes.ok
    /\ IsInteger(item.kids[1])
    /\ item.kids[2].kind = "Literal"
    /\ item.kids[2].txt = "Float"

\* C10: on one pipeline as_transforms is present exactly when
\* into_transforms is Ok, and then both hold the same Transforms in order.
C10_Agree ==
    (asRes.op = "as_transforms" /\ intoRes.op = "into_transforms") =>
        /\ asRes.ok <=> intoRes.ok
        /\ asRes.ok => asRes.vals = intoRes.vals

\* reached: both conversions have run on a pipeline that mixes kinds
C10_Witness ==
    /\ asRes.op = "as_transforms"
    /\ intoRes.op = "into_transforms"
    /\ Len(item.kids) = 2
    /\ item.kids[1].kind = "Transform"
    /\ item.kids[2].kind # "Transform"

(***************************************************************************)
(* The claims about the renderer, checked under SpecFmt and SpecFmtLive.   *)
(***************************************************************************)
\* two spaces, the node's text and a suffix, for every node in order
RECURSIVE Block(_, _)
Block(nodes, suffix) ==
    IF nodes = <<>> THEN ""
    ELSE "  " \o to_string(Head(nodes)) \o suffix \o Block(Tail(nodes), suffix)

PipelineText(nodes) ==
    CASE Len(nodes) = 0 -> "()"
      [] Len(nodes) = 1 -> "(" \o to_string(nodes[1]) \o ")"
      [] OTHER -> "(" \o "\n" \o Block(nodes, "\n") \o ")"

\* C5: a Pipeline of no stage renders as "()", of one stage A as "(A)", of
\* two or more as "(", a newline, every stage in order indented by two
\* spaces and ended by a newline, and ")"; no " | " is ever written.
C5_Pipeline ==
    (status = "ok" /\ item.kind = "Pipeline") =>
        /\ Text(out) = PipelineText(item.kids)
        /\ \A j \in DOMAIN out : out[j].s # " | "
        /\ item = Pipeline(<<Ident("A"), Ident("B"), Ident("A")>>)
              => Text(out) = "(\n  A\n  B\n  A\n)"
        /\ item = Pipeline(<<Ident("A")>>) => Text(out) = "(A)"

\* reached: a pipeline of three stages has been rendered
C5_Witness ==
    /\ status = "ok"
    /\ item = Pipeline(<<Ident("A"), Ident("B"), Ident("A")>>)

ListText(nodes) ==
    CASE Len(nodes) = 0 -> "[]"
      [] Len(nodes) = 1 -> "[" \o to_string(nodes[1]) \o "]"
      [] OTHER -> "[" \o "\n" \o Block(nodes, ",\n") \o "]"

\* C8: a List of no element renders as "[]", of one element as "[item]",
\* of two or more as "[", a newline, every element in order indented by
\* two spaces and ended by a comma and a newline, and "]".
C8_List ==
    (status = "ok" /\ item.kind = "List") =>
        /\ Text(out) = ListText(item.kids)
        /\ item = List(<<Ident("A")>>) => Text(out) = "[A]"
        /\ item = List(<<Ident("A"), Ident("B")>>) => Text(out) = "[\n  A,\n  B,\n]"

\* reached: a list of two elements has been rendered
C8_Witness ==
    /\ status = "ok"
    /\ item = List(<<Ident("A"), Ident("B")>>)

RECURSIVE StageLines(_)
StageLines(nodes) ==
    IF nodes = <<>> THEN ""
    ELSE to_string(Head(nodes)) \o "\n" \o StageLines(Tail(nodes))

RECURSIVE TopText(_)
TopText(nodes) ==
    IF nodes = <<>> THEN ""
    ELSE (IF Head(nodes).kind = "Pipeline" THEN StageLines(Head(nodes).kids)
                                           ELSE to_string(Head(nodes)))
             \o TopText(Tail(nodes))

\* C9: a Query renders as "prql dialect: <dialect>", a blank line, and its
\* top-level nodes in order with nothing between them: a Pipeline as each
\* of its stages followed by a newline, without parentheses, indentation
\* or pipes; any other node as it renders on its own.
C9_Query ==
    (status = "ok" /\ item.kind = "Query") =>
        /\ Text(out) = "prql dialect: " \o item.txt \o "\n\n" \o TopText(item.kids)
        /\ item = Query("sql", <<Pipeline(<<Ident("A"), Transform("take")>>), Ident("B")>>)
              => Text(out) = "prql dialect: sql\n\nA\ntake <unimplemented>\nB"
        /\ item = Query("sql", <<Pipeline(<<Ident("A")>>), Pipeline(<<>>)>>)
              => Text(out) = "prql dialect: sql\n\nA\n"

\* reached: a query of a two-stage pipeline and another node has been
\* rendered
C9_Witness ==
    /\ status = "ok"
    /\ item = Query("sql", <<Pipeline(<<Ident("A"), Transform("take")>>), Ident("B")>>)

RECURSIVE NamedText(_)
NamedText(keys) ==
    IF keys = <<>> THEN ""
    ELSE " " \o Head(keys) \o ": " \o "v" \o Head(keys) \o NamedText(Tail(keys))

RECURSIVE ArgsText(_)
ArgsText(args) ==
    IF args = <<>> THEN "" ELSE " " \o to_string(Head(args)) \o ArgsText(Tail(args))

\* C6: a FuncCall renders as its callee, then every named argument as
\* " <name>: <value>" in the order of the call site, then every positional
\* argument in order, so that the text is the same for every rendering of
\* equal calls.
C6_FuncCallInsertionOrder ==
    (status = "ok" /\ item.kind = "FuncCall") =>
        Text(out) = to_string(item.kids[1]) \o NamedText(callsite)
                        \o ArgsText(SubSeq(item.kids, item.n + 2, Len(item.kids)))

\* the nodes a call of fmt descends into
RECURSIVE Sum(_)
Sum(ns) == IF ns = <<>> THEN 0 ELSE Head(ns) + Sum(Tail(ns))
RECURSIVE Size(_)
Size(it) == 1 + Sum([j \in DOMAIN it.kids |-> Size(it.kids[j])])
Descends(it) == {fmt(it)[j].it : j \in {k \in DOMAIN fmt(it) : fmt(it)[k].w = "item"}}

Closer(s) ==
    CASE s = "(" -> ")"
      [] s = "[" -> "]"
      [] s = "{" -> "}"
      [] s = "<" -> ">"
      [] s = "\"" -> "\""

\* every closing delimiter closes the innermost delimiter still open, and
\* none is left open
RECURSIVE Nesting(_, _)
Nesting(chunks, open) ==
    IF chunks = <<>> THEN open = <<>>
    ELSE CASE Head(chunks).d = "open" ->
                Nesting(Tail(chunks), <<Closer(Head(chunks).s)>> \o open)
           [] Head(chunks).d = "close" ->
                /\ open # <<>>
                /\ Head(open) = Head(chunks).s
                /\ Nesting(Tail(chunks), Tail(open))
           [] OTHER -> Nesting(Tail(chunks), open)
Balanced(chunks) == Nesting(chunks, <<>>)

\* the deepest nesting of delimiters in the chunks
RECURSIVE Deepest(_, _)
Deepest(chunks, level) ==
    IF chunks = <<>> THEN level
    ELSE LET next == CASE Head(chunks).d = "open" -> level + 1
                       [] Head(chunks).d = "close" -> level - 1
                       [] OTHER -> level
             rest == Deepest(Tail(chunks), next)
         IN  IF rest > next THEN rest ELSE next

\* C7: rendering ends; every call of fmt descends only into subtrees
\* strictly smaller than the item it renders; and in the text of a
\* finished rendering the delimiters written for List, Pipeline, SString,
\* FString and Type are closed in the reverse of the order they were opened.
C7_TerminatesBalanced ==
    /\ <>(status # "run")
    /\ []((status = "run" /\ stack # <<>> /\ Head(stack).w = "item") =>
            \A child \in Descends(Head(stack).it) : Size(child) < Size(Head(stack).it))
    /\ [](status = "ok" => Balanced(out))

\* a finished rendering has written what the nested calls of fmt write
FmtWritten == status = "ok" => out = Written(item)

\* reached: a finished rendering with delimiters nested three deep, string
\* templates among them
C7_Witness ==
    /\ status = "ok"
    /\ Deepest(out, 0) >= 3
    /\ \E j \in DOMAIN out : out[j].d = "open" /\ out[j].s = "{"
    /\ \E j \in DOMAIN out : out[j].d = "open" /\ out[j].s = "["

====
